---- MODULE Spec2Model ----
(***************************************************************************)
(* The import-aware source merge engine of reactionable-cli                *)
(* (TypescriptFile): a file's text is parsed into a registry of import     *)
(* statements plus verbatim body spans, the registry is edited through     *)
(* setImports, and getContent sorts, renders and joins the result.         *)
(* With it, two collaborators: the overwrite prompt of CliService          *)
(* (promptOverwriteFileDiff) and the package manager helpers               *)
(* (getPackageInfo with its cache, installPackages).                       *)
(*                                                                         *)
(* Text is a sequence of characters.  The model's alphabet is one of       *)
(* lexical units: an identifier, a keyword, a punctuator, a quoted module  *)
(* name or a line terminator is one character.                             *)
(***************************************************************************)
EXTENDS Integers, Sequences, FiniteSets, TLC

VARIABLES
    imports,       \* this.imports: the registry, a sequence of TypescriptImport
    declarations,  \* this.declarations: the body spans, a sequence of texts
    content,       \* the text handed to parseContent
    output,        \* the text the last getContent call returned
    engine,        \* the sort algorithm of the JavaScript runtime
    lastCall,      \* the last public call and its arguments
    nCalls,        \* number of setImports calls made so far
    arrival,       \* the package names in the order their statements were created
    raised         \* the error the last call threw, NoError when it returned

\* CliService.promptOverwriteFileDiff
VARIABLES
    existingContent, \* the lines of the file on disk
    newContent,      \* the lines about to be written
    diff,            \* the Change[] handed to promptOverwriteFileDiff
    promptPc,        \* where the call is: "idle", "prompt", "pause" or "done"
    returned,        \* what the call resolved with: "true", "false", "none" before
    choices,         \* the answers of promptToChoose so far
    prompts,         \* number of prompts issued
    printed,         \* number of diff messages handed to consoleService.info
    stdinIsTTY       \* whether process.stdin is a terminal

\* the package manager helpers (installPackages, getPackageInfo)
VARIABLES
    dirExists,     \* whether dirPath exists
    yarnLock,      \* whether dirPath holds a yarn.lock
    packageJson,   \* dirPath/package.json: NoFile or its mtime and parsed content
    packageCache,  \* the module's packageCache, a map from dirPath
    clock,         \* the time of the file system, in ticks of its mtime
    onPath,        \* the commands which() finds
    executed,      \* the commands the last installPackages call handed to exec
    info,          \* what the last getPackageInfo / installPackages call returned
    packageCall    \* the last call of the helpers and its arguments

docVars == <<imports, declarations, content, output, engine, lastCall, nCalls, arrival>>

promptVars ==
    <<existingContent, newContent, diff, promptPc, returned, choices, prompts, printed,
      stdinIsTTY>>

packageVars ==
    <<dirExists, yarnLock, packageJson, packageCache, clock, onPath, executed, info,
      packageCall>>

\* CliService.execCmd
VARIABLES
    execCall,     \* the arguments of the execCmd call, [op |-> "none"] before it
    child,        \* the child process: "none", "running" or "exited"
    exitCode,     \* the code of the exit event: "0", "1", or "null" after a signal
    produced,     \* the chunks the child has written, per stream
    delivered,    \* how many chunks of each stream have reached a data listener
    cmdOutput,    \* the closure's output
    cmdError,     \* the closure's error
    promise,      \* the promise: "none", "pending", "resolved" or "rejected"
    settledWith,  \* the value or reason the promise settled with
    settles       \* number of resolve and reject calls

execVars ==
    <<execCall, child, exitCode, produced, delivered, cmdOutput, cmdError, promise,
      settledWith, settles>>

vars == <<docVars, raised, promptVars, packageVars, execVars>>

----------------------------------------------------------------------------
(* Bounds of the model *)

\* answers of the user to one promptOverwriteFileDiff call
MaxChoices == 3
\* lines of a content that is compared
MaxLines == 2
\* chunks a child process writes to its two streams together
MaxChunks == 2
\* ticks of the file system clock
MaxClock == 1
\* packages of one installPackages call
MaxPackages == 2
\* setImports calls per document
MaxCalls == 2
\* items in one setImports call (importsToAdd and importsToRemove together)
MaxBatch == 2
\* top-level statements of a parsed file
MaxStatements == 3

----------------------------------------------------------------------------
(* TypescriptImport: sentinels and binding maps *)

\* TypescriptImport.defaultImport
defaultImport == "default"
\* TypescriptImport.globImport
globImport == "*"
\* os.EOL
EOL == "\n"
\* U+2028 LINE SEPARATOR
LS == "u2028"
\* a space or a tab
SP == " "
\* a character no statement can hold
BadChar == "#"

\* the value of a call that threw nothing
NoError == [name |-> "none"]

\* this.file: the path the document was built for
file == "src/App.tsx"

Identifiers == {"React", "useState"}

\* modules of a TypescriptImport: a map from module-reference key to
\* local-binding value
NoModules == [k \in {} |-> ""]

Module(k, v) == [x \in {k} |-> v]

\* TypescriptImport constructor
TypescriptImport(packageName, modules) ==
    [packageName |-> packageName, modules |-> modules]

\* TypescriptImport.addModules: key-by-key merge, the new value wins
addModules(old, new) ==
    [k \in (DOMAIN old) \cup (DOMAIN new) |->
        IF k \in DOMAIN new THEN new[k] ELSE old[k]]

\* TypescriptImport.removeModules: every key of the request is deleted
removeModules(old, gone) ==
    [k \in (DOMAIN old) \ (DOMAIN gone) |-> old[k]]

----------------------------------------------------------------------------
(* Package names, /^\./ and String.prototype.localeCompare *)

Packages == {"react", "Zod", "./utils", "../shared"}

\* the characters of a package name
chars(s) ==
    CASE s = "react"     -> <<"r", "e", "a", "c", "t">>
      [] s = "Zod"       -> <<"Z", "o", "d">>
      [] s = "./utils"   -> <<".", "/", "u", "t", "i", "l", "s">>
      [] s = "../shared" -> <<".", ".", "/", "s", "h", "a", "r", "e", "d">>

\* /^\./.exec(packageName)
isRelative(packageName) ==
    LET cs == chars(packageName) IN Len(cs) > 0 /\ cs[1] = "."

\* Collation: punctuation before letters, letters in alphabetical order
\* whatever their case (primary weight), lower case before upper case
\* (tertiary weight).
CollationOrder ==
    <<".", "/", "a", "c", "d", "e", "h", "i", "l", "o", "r", "s", "t", "u", "z">>

toLower(c) == IF c = "Z" THEN "z" ELSE c

primary(c) == CHOOSE i \in 1..Len(CollationOrder) : CollationOrder[i] = toLower(c)

tertiary(c) == IF c = toLower(c) THEN 0 ELSE 1

RECURSIVE compareKeys(_, _)
\* lexicographic comparison of two sequences of weights: -1, 0 or 1
compareKeys(a, b) ==
    IF a = <<>> /\ b = <<>> THEN 0
    ELSE IF a = <<>> THEN -1
    ELSE IF b = <<>> THEN 1
    ELSE IF Head(a) < Head(b) THEN -1
    ELSE IF Head(a) > Head(b) THEN 1
    ELSE compareKeys(Tail(a), Tail(b))

\* a.localeCompare(b)
localeCompare(a, b) ==
    LET ca == chars(a)
        cb == chars(b)
        p  == compareKeys([i \in 1..Len(ca) |-> primary(ca[i])],
                          [i \in 1..Len(cb) |-> primary(cb[i])])
    IN  IF p # 0 THEN p
        ELSE compareKeys([i \in 1..Len(ca) |-> tertiary(ca[i])],
                         [i \in 1..Len(cb) |-> tertiary(cb[i])])

\* the comparator without its two tests for a relative import
compareImportsByName(importA, importB) ==
    localeCompare(importA.packageName, importB.packageName)

\* the comparator getContent hands to Array.prototype.sort
compareImports(importA, importB) ==
    IF isRelative(importA.packageName) THEN 1
    ELSE IF isRelative(importB.packageName) THEN -1
    ELSE localeCompare(importA.packageName, importB.packageName)

----------------------------------------------------------------------------
(* Array.prototype.sort.  The comparator is not a consistent comparator    *)
(* (it answers 1 for two relative imports in either order), so the order   *)
(* of the result is the engine's: both algorithms Node's V8 has shipped    *)
(* are modelled.                                                           *)

Engines == {"timsort", "insertion"}

\* s with the element at position from moved to position to (to <= from)
moveTo(s, from, to) ==
    [i \in 1..Len(s) |->
        IF i < to \/ i > from THEN s[i]
        ELSE IF i = to THEN s[from]
        ELSE s[i - 1]]

RECURSIVE runEnd(_, _, _)
\* V8 CountAndMakeRun: last index of the run that starts at 1, idx is the
\* last index known to belong to it
runEnd(s, descending, idx) ==
    IF idx >= Len(s) THEN idx
    ELSE LET order == compareImports(s[idx + 1], s[idx])
         IN  IF descending
             THEN IF order >= 0 THEN idx ELSE runEnd(s, descending, idx + 1)
             ELSE IF order < 0 THEN idx ELSE runEnd(s, descending, idx + 1)

reverseRange(s, n) ==
    [i \in 1..Len(s) |-> IF i <= n THEN s[n + 1 - i] ELSE s[i]]

RECURSIVE binarySearch(_, _, _, _)
\* V8 BinaryInsertionSort, inner loop: the 0-based slot of pivot in s[left..right)
binarySearch(s, pivot, left, right) ==
    IF left >= right THEN left
    ELSE LET mid   == left + ((right - left) \div 2)
             order == compareImports(pivot, s[mid + 1])
         IN  IF order < 0 THEN binarySearch(s, pivot, left, mid)
             ELSE binarySearch(s, pivot, mid + 1, right)

RECURSIVE binaryInsertionSort(_, _)
\* V8 BinaryInsertionSort: s[1..start-1] is sorted, insert the rest
binaryInsertionSort(s, start) ==
    IF start > Len(s) THEN s
    ELSE LET left == binarySearch(s, s[start], 0, start - 1)
         IN  binaryInsertionSort(moveTo(s, start, left + 1), start + 1)

\* V8 >= 7.0 (Node >= 11), arrays shorter than 64: one run, then binary
\* insertion of the rest
timSort(s) ==
    IF Len(s) < 2 THEN s
    ELSE LET descending == compareImports(s[2], s[1]) < 0
             n          == runEnd(s, descending, 2)
             run        == IF descending THEN reverseRange(s, n) ELSE s
         IN  binaryInsertionSort(run, n + 1)

RECURSIVE insertionSlot(_, _, _)
\* V8 < 7.0 InsertionSort, inner loop: the slot of element, j is the index
\* of the next element to compare it with
insertionSlot(s, element, j) ==
    IF j < 1 THEN 1
    ELSE IF compareImports(s[j], element) > 0 THEN insertionSlot(s, element, j - 1)
    ELSE j + 1

RECURSIVE insertionSortFrom(_, _)
insertionSortFrom(s, i) ==
    IF i > Len(s) THEN s
    ELSE insertionSortFrom(moveTo(s, i, insertionSlot(s, s[i], i - 1)), i + 1)

\* V8 < 7.0 (Node <= 10), arrays of at most 10 elements
insertionSort(s) == insertionSortFrom(s, 2)

\* this.imports.sort(comparator) on the given engine
sortImports(s, eng) ==
    IF eng = "timsort" THEN timSort(s) ELSE insertionSort(s)

----------------------------------------------------------------------------
(* The registry: addImports, removeImports, setImports *)

\* addImports with the found flag never set: every item is pushed
addImportAlwaysPush(imps, importItem) == Append(imps, importItem)

\* addImports with the statement's modules replaced by the item's, not merged
addImportReplace(imps, importItem) ==
    IF \E i \in 1..Len(imps) : imps[i].packageName = importItem.packageName
    THEN [i \in 1..Len(imps) |->
            IF imps[i].packageName # importItem.packageName THEN imps[i] ELSE importItem]
    ELSE Append(imps, importItem)

\* addImports, one importItem of the batch: merged into every statement of
\* the same package, pushed when there is none
addImport(imps, importItem) ==
    LET importToAddFound ==
            \E i \in 1..Len(imps) : imps[i].packageName = importItem.packageName
        merged ==
            [i \in 1..Len(imps) |->
                IF imps[i].packageName # importItem.packageName THEN imps[i]
                ELSE TypescriptImport(imps[i].packageName,
                                      addModules(imps[i].modules, importItem.modules))]
    IN  IF importToAddFound THEN merged ELSE Append(merged, importItem)

RECURSIVE addImports(_, _)
\* TypescriptFile.addImports: the batch, item by item
addImports(imps, batch) ==
    IF batch = <<>> THEN imps
    ELSE addImports(addImport(imps, Head(batch)), Tail(batch))

\* removeImports with the package test inverted
removeImportOthers(imps, importItem) ==
    [i \in 1..Len(imps) |->
        IF imps[i].packageName = importItem.packageName THEN imps[i]
        ELSE TypescriptImport(imps[i].packageName,
                              removeModules(imps[i].modules, importItem.modules))]

\* removeImports with the push of addImports copied into it: a package with
\* no statement gets one
removeImportOrPush(imps, importItem) ==
    LET found == \E i \in 1..Len(imps) : imps[i].packageName = importItem.packageName
        cut   == [i \in 1..Len(imps) |->
                    IF imps[i].packageName # importItem.packageName THEN imps[i]
                    ELSE TypescriptImport(imps[i].packageName,
                                          removeModules(imps[i].modules, importItem.modules))]
    IN  IF found THEN cut
        ELSE Append(cut, TypescriptImport(importItem.packageName, [k \in {} |-> ""]))

\* removeImports, one importItem of the batch
removeImport(imps, importItem) ==
    [i \in 1..Len(imps) |->
        IF imps[i].packageName # importItem.packageName THEN imps[i]
        ELSE TypescriptImport(imps[i].packageName,
                              removeModules(imps[i].modules, importItem.modules))]

RECURSIVE removeImports(_, _)
\* TypescriptFile.removeImports: the batch, item by item
removeImports(imps, batch) ==
    IF batch = <<>> THEN imps
    ELSE removeImports(removeImport(imps, Head(batch)), Tail(batch))

\* setImports with its two calls swapped: every removal, then every addition
setImportsRemoveFirst(imps, importsToAdd, importsToRemove) ==
    addImports(removeImports(imps, importsToRemove), importsToAdd)

\* TypescriptFile.setImports: every addition, then every removal
setImports(imps, importsToAdd, importsToRemove) ==
    removeImports(addImports(imps, importsToAdd), importsToRemove)

----------------------------------------------------------------------------
(* Text *)

RECURSIVE join(_, _)
\* Array.prototype.join: the texts of a list with sep between them
join(list, sep) ==
    IF list = <<>> THEN <<>>
    ELSE IF Len(list) = 1 THEN list[1]
    ELSE list[1] \o <<sep>> \o join(Tail(list), sep)

\* String.prototype.substr(start, length), start 0-based
substr(text, start, length) ==
    SubSeq(text, start + 1, IF start + length > Len(text) THEN Len(text) ELSE start + length)

----------------------------------------------------------------------------
(* TypescriptImport.toString: the encoding table read in reverse, one      *)
(* rendering per entry of the binding map.                                 *)

RECURSIVE seqOf(_)
\* the elements of a finite set, in a fixed order
seqOf(S) ==
    IF S = {} THEN <<>>
    ELSE LET x == CHOOSE y \in S : TRUE IN <<x>> \o seqOf(S \ {x})

isSideEffect(m, k) == k = defaultImport /\ m[k] = defaultImport
isDefault(m, k)    == k \notin {defaultImport, globImport} /\ m[k] = defaultImport
isGlob(m, k)       == k = globImport /\ m[k] \notin {defaultImport, ""}
isNamed(m, k)      == k \notin {defaultImport, globImport} /\ m[k] # defaultImport

\* the specifier an entry stands for, as text
renderModule(m, k) ==
    IF isDefault(m, k) THEN <<k>>
    ELSE IF isGlob(m, k) THEN <<"*", "as", m[k]>>
    ELSE IF m[k] = "" THEN <<k>>
    ELSE <<k, "as", m[k]>>

\* the import clause: default bindings, the namespace binding, then the
\* named bindings in braces
renderClause(m) ==
    LET keys    == DOMAIN m
        first   == seqOf({k \in keys : isDefault(m, k) \/ isGlob(m, k)})
        named   == seqOf({k \in keys : isNamed(m, k)})
        braces  == IF named = <<>> THEN <<>>
                   ELSE << <<"{">> \o join([i \in 1..Len(named) |-> renderModule(m, named[i])], ",")
                           \o <<"}">> >>
    IN  join([i \in 1..Len(first) |-> renderModule(m, first[i])] \o braces, ",")

\* TypescriptImport.toString: "" for an empty binding map
toString(importItem) ==
    LET m      == importItem.modules
        p      == importItem.packageName
        clause == renderClause(m)
    IN  (IF \E k \in DOMAIN m : isSideEffect(m, k) THEN <<"import", p, ";">> ELSE <<>>)
        \o (IF clause = <<>> THEN <<>> ELSE <<"import">> \o clause \o <<"from", p, ";">>)

\* whether the entry of key k matches one of the five encoding rules
isEncoded(m, k) ==
    isSideEffect(m, k) \/ isDefault(m, k) \/ isGlob(m, k) \/ isNamed(m, k)

\* TypescriptImport.toString, its failure: the InvariantViolation for an
\* entry that matches no encoding rule, NoError when every entry matches one
toStringError(importItem) ==
    LET m   == importItem.modules
        bad == {k \in DOMAIN m : ~isEncoded(m, k)}
    IN  IF bad = {} THEN NoError
        ELSE [name |-> "InvariantViolation", packageName |-> importItem.packageName,
              key |-> CHOOSE k \in bad : TRUE]

----------------------------------------------------------------------------
(* The parser (typescript-estree) on the model's alphabet: the top-level   *)
(* statements of a text with their ranges.  A statement that starts with   *)
(* the keyword import is an ImportDeclaration and ends at its semicolon,   *)
(* any other statement runs to the next semicolon; line terminators        *)
(* between statements belong to no statement.                              *)

RECURSIVE indexOf(_, _, _)
\* the first index j >= i with text[j] = ch, Len(text) + 1 when there is none
indexOf(text, ch, i) ==
    IF i > Len(text) THEN Len(text) + 1
    ELSE IF text[i] = ch THEN i
    ELSE indexOf(text, ch, i + 1)

Specifier(type, local, imported) ==
    [type |-> type, local |-> local, imported |-> imported]

RECURSIVE clauseSpecifiers(_, _, _, _)
\* the specifiers of the import clause text[j .. end - 1]
clauseSpecifiers(text, j, end, inBraces) ==
    IF j >= end THEN <<>>
    ELSE IF text[j] = "," THEN clauseSpecifiers(text, j + 1, end, inBraces)
    ELSE IF text[j] = "{" THEN clauseSpecifiers(text, j + 1, end, TRUE)
    ELSE IF text[j] = "}" THEN clauseSpecifiers(text, j + 1, end, FALSE)
    ELSE IF text[j] = "*"
    THEN <<Specifier("ImportNamespaceSpecifier", text[j + 2], "")>>
         \o clauseSpecifiers(text, j + 3, end, inBraces)
    ELSE IF ~inBraces
    THEN <<Specifier("ImportDefaultSpecifier", text[j], "")>>
         \o clauseSpecifiers(text, j + 1, end, inBraces)
    ELSE IF j + 1 < end /\ text[j + 1] = "as"
    THEN <<Specifier("ImportSpecifier", text[j + 2], text[j])>>
         \o clauseSpecifiers(text, j + 3, end, inBraces)
    ELSE <<Specifier("ImportSpecifier", text[j], text[j])>>
         \o clauseSpecifiers(text, j + 1, end, inBraces)

\* the line terminators of the scanner: line feed and U+2028
isLineBreak(ch) == ch \in {EOL, LS}

\* white space between statements
isWhiteSpace(ch) == ch \in {EOL, LS, SP}

RECURSIVE programBody(_, _)
\* parse(content, {jsx, range}).body, read from index i on
programBody(text, i) ==
    IF i > Len(text) THEN <<>>
    ELSE IF isWhiteSpace(text[i]) THEN programBody(text, i + 1)
    ELSE IF text[i] = "import"
    THEN LET bare == text[i + 1] \in Packages
             from == indexOf(text, "from", i + 1)
             last == IF bare THEN i + 2 ELSE from + 2
         IN  << [type       |-> "ImportDeclaration",
                 range      |-> <<i - 1, last>>,
                 source     |-> IF bare THEN text[i + 1] ELSE text[from + 1],
                 specifiers |-> IF bare THEN <<>>
                                ELSE clauseSpecifiers(text, i + 1, from, FALSE)] >>
             \o programBody(text, last + 1)
    ELSE LET last == indexOf(text, ";", i)
         IN  << [type       |-> "ExpressionStatement",
                 range      |-> <<i - 1, last>>,
                 source     |-> "",
                 specifiers |-> <<>>] >>
             \o programBody(text, last + 1)

\* TypescriptFile.parseTypescriptContent, the try block when parse returns
parseTypescriptContent(text) == programBody(text, 1)

NoDiagnostic == [lineNumber |-> 0]

\* the error parse throws: the position of the first character no statement
\* can hold, with the 1-based number of its line as the scanner counts
\* lines (a line starts after every line terminator) and its column
parseDiagnostic(text) ==
    LET at == indexOf(text, BadChar, 1)
        breaks == {i \in 1..(at - 1) : isLineBreak(text[i])}
        lineStart == IF breaks = {} THEN 0
                     ELSE CHOOSE i \in breaks : \A j \in breaks : j <= i
    IN  IF at > Len(text) THEN NoDiagnostic
        ELSE [index      |-> at - 1,
              lineNumber |-> Cardinality(breaks) + 1,
              column     |-> at - 1 - lineStart,
              message    |-> "Invalid character."]

\* JSON.stringify(error)
stringify(error) ==
    <<"{", "index", ":", ToString(error.index), ",",
           "lineNumber", ":", ToString(error.lineNumber), ",",
           "column", ":", ToString(error.column), ",",
           "message", ":", error.message, "}">>

RECURSIVE split(_, _)
\* String.prototype.split(separator)
split(text, separator) ==
    LET e == indexOf(text, separator, 1)
    IN  IF e > Len(text) THEN <<text>>
        ELSE <<SubSeq(text, 1, e - 1)>> \o split(SubSeq(text, e + 1, Len(text)), separator)

RECURSIVE trimStart(_)
trimStart(text) ==
    IF text # <<>> /\ isWhiteSpace(Head(text)) THEN trimStart(Tail(text)) ELSE text

RECURSIVE trimEnd(_)
trimEnd(text) ==
    IF text # <<>> /\ isWhiteSpace(text[Len(text)])
    THEN trimEnd(SubSeq(text, 1, Len(text) - 1)) ELSE text

\* String.prototype.trim
trim(text) == trimEnd(trimStart(text))

\* what reading .trim of undefined throws
TypeError == [name |-> "TypeError", message |-> "Cannot read property 'trim' of undefined"]

\* TypescriptFile.parseTypescriptContent, the catch block: what it throws
\* for the error parse threw
parseFailure(text, error) ==
    LET lines == split(text, EOL)
    IN  IF error.lineNumber = 0
        THEN [name |-> "Error", file |-> file, diagnostic |-> stringify(error),
              line |-> trim(text)]
        ELSE IF error.lineNumber > Len(lines) THEN TypeError
        ELSE [name |-> "Error", file |-> file, diagnostic |-> stringify(error),
              line |-> trim(lines[error.lineNumber])]

----------------------------------------------------------------------------
(* parseContent and parseImportDeclaration *)

\* StdFile.parseContent
StdFileParseContent(text) == text

\* the binding of one specifier with the test for an alias inverted
specifierModulesNoAlias(specifier) ==
    IF specifier.type = "ImportDefaultSpecifier"
    THEN Module(specifier.local, defaultImport)
    ELSE IF specifier.type = "ImportNamespaceSpecifier"
    THEN Module(globImport, specifier.local)
    ELSE Module(specifier.imported,
                IF specifier.local = specifier.imported THEN specifier.local ELSE "")

\* the binding {[moduleName]: importType} of one specifier
specifierModules(specifier) ==
    IF specifier.type = "ImportDefaultSpecifier"
    THEN Module(specifier.local, defaultImport)
    ELSE IF specifier.type = "ImportNamespaceSpecifier"
    THEN Module(globImport, specifier.local)
    ELSE Module(specifier.imported,
                IF specifier.local # specifier.imported THEN specifier.local ELSE "")

RECURSIVE addSpecifiers(_, _, _)
\* parseImportDeclaration, the loop over the specifiers
addSpecifiers(imps, source, specifiers) ==
    IF specifiers = <<>> THEN imps
    ELSE addSpecifiers(
            addImports(imps, <<TypescriptImport(source, specifierModules(Head(specifiers)))>>),
            source, Tail(specifiers))

\* TypescriptFile.parseImportDeclaration
parseImportDeclaration(imps, bodyItem) ==
    IF Len(bodyItem.specifiers) = 0
    THEN addImports(imps, <<TypescriptImport(bodyItem.source,
                                             Module(defaultImport, defaultImport))>>)
    ELSE addSpecifiers(imps, bodyItem.source, bodyItem.specifiers)

\* the text of a body item with the end of the range passed as the length
declarationTextToEnd(text, bodyItem) ==
    substr(text, bodyItem.range[1], bodyItem.range[2])

\* the text of a body item
declarationText(text, bodyItem) ==
    substr(text, bodyItem.range[1], bodyItem.range[2] - bodyItem.range[1])

RECURSIVE parseBody(_, _, _)
\* parseContent, the loop over the body items
parseBody(doc, text, body) ==
    IF body = <<>> THEN doc
    ELSE LET bodyItem == Head(body)
             next == IF bodyItem.type = "ImportDeclaration"
                     THEN [doc EXCEPT !.imports = parseImportDeclaration(@, bodyItem)]
                     ELSE [doc EXCEPT !.declarations =
                                         Append(@, declarationText(text, bodyItem))]
         IN  parseBody(next, text, Tail(body))

\* TypescriptFile.parseContent
parseContent(text) ==
    LET normal == StdFileParseContent(text)
    IN  parseBody([imports |-> <<>>, declarations |-> <<>>], normal,
                  parseTypescriptContent(normal))

----------------------------------------------------------------------------
(* getContent *)

\* the filter inverted: only empty lines are kept
hasNoLength(line) == Len(line) = 0

\* a filter that keeps every line
keepsEveryLine(line) == TRUE

hasLength(line) == Len(line) # 0

\* the import lines of a sorted registry
importLines(sorted) ==
    SelectSeq([i \in 1..Len(sorted) |-> toString(sorted[i])], hasLength)

\* the error of the first statement, in registry order, whose rendering fails
RECURSIVE firstError(_)
firstError(sorted) ==
    IF sorted = <<>> THEN NoError
    ELSE IF toStringError(Head(sorted)) # NoError THEN toStringError(Head(sorted))
    ELSE firstError(Tail(sorted))

\* getContent without the empty line between the imports and the body
getContentNoEmptyLine(imps, decls, eng) ==
    LET sorted == sortImports(imps, eng)
    IN  [imports |-> sorted,
         error   |-> firstError(sorted),
         text    |-> join(importLines(sorted) \o decls, EOL)]

\* getContent with the body spans joined in reverse order
getContentBodyReversed(imps, decls, eng) ==
    LET sorted == sortImports(imps, eng)
    IN  [imports |-> sorted,
         error   |-> firstError(sorted),
         text    |-> join(importLines(sorted) \o << <<>> >>
                          \o [i \in 1..Len(decls) |-> decls[Len(decls) + 1 - i]], EOL)]

\* getContent with a rendering that fails taken for an empty line
getContentSkipsFailures(imps, decls, eng) ==
    LET sorted == sortImports(imps, eng)
    IN  [imports |-> sorted,
         error   |-> NoError,
         text    |-> join(importLines(sorted) \o << <<>> >> \o decls, EOL)]

\* TypescriptFile.getContent: sorts this.imports in place, then renders
\* every statement; an error of toString leaves getContent as it is thrown,
\* otherwise the text is returned
getContent(imps, decls, eng) ==
    LET sorted == sortImports(imps, eng)
    IN  [imports |-> sorted,
         error   |-> firstError(sorted),
         text    |-> join(importLines(sorted) \o << <<>> >> \o decls, EOL)]

----------------------------------------------------------------------------
(* Inputs *)

\* the sequences over S of length at most n
SeqsUpTo(S, n) == UNION {[1..k -> S] : k \in 0..n}

\* the binding maps of setImports requests
RequestModules ==
    { Module("React", defaultImport),
      [k \in {"React", "useState"} |-> ""] }

\* the items of setImports requests
RequestItems ==
    {TypescriptImport(p, m) : p \in Packages, m \in RequestModules}

\* (importsToAdd, importsToRemove) of one setImports call
Requests ==
    {r \in SeqsUpTo(RequestItems, MaxBatch) \X SeqsUpTo(RequestItems, MaxBatch) :
        Len(r[1]) + Len(r[2]) <= MaxBatch}

\* the text of an import declaration of each source form
importText(form, p) ==
    CASE form = "side"    -> <<"import", p, ";">>
      [] form = "default" -> <<"import", "React", "from", p, ";">>
      [] form = "glob"    -> <<"import", "*", "as", "React", "from", p, ";">>
      [] form = "named"   -> <<"import", "{", "useState", "}", "from", p, ";">>
      [] form = "alias"   -> <<"import", "{", "useState", "as", "React", "}", "from", p, ";">>
      [] form = "clash"   -> <<"import", "{", "React", "as", "useState", "}", "from", p, ";">>
      [] form = "mixed"   -> <<"import", "React", ",", "{", "useState", "}", "from", p, ";">>

ImportForms == {"side", "default", "glob", "named", "alias", "clash", "mixed"}

SourcePackages == {"react", "./utils"}

ImportTexts == {importText(f, p) : f \in ImportForms, p \in SourcePackages}

\* statements that are no import declaration, the second on two lines
BodyTexts == { <<"x", ";">>, <<"y", EOL, "z", ";">> }

\* files: top-level statements, one line terminator between two of them
SourceFiles ==
    {join(stmts, EOL) : stmts \in SeqsUpTo(ImportTexts \cup BodyTexts, MaxStatements)}

\*   import React from "react"; import { useState } from "react"; x;
ReactFile ==
    join(<<importText("default", "react"), importText("named", "react"), <<"x", ";">> >>, EOL)

\*   import React from "react"; import { React as useState } from "react";
ClashFile ==
    join(<<importText("default", "react"), importText("clash", "react")>>, EOL)

\*   x; import React from "./utils"; y
\*   z;
BodyFile ==
    join(<< <<"x", ";">>, importText("default", "./utils"), <<"y", EOL, "z", ";">> >>, EOL)

ScenarioFiles == {<<>>, ReactFile, ClashFile, BodyFile}

\* statements of files that may not parse, the second with a character no
\* statement can hold after an indent
ErrorStatements ==
    { <<"x", ";">>, <<SP, BadChar, ";">>, importText("default", "react") }

RECURSIVE glue(_, _)
\* the statements with the separators between them
glue(stmts, seps) ==
    IF stmts = <<>> THEN <<>>
    ELSE IF Len(stmts) = 1 THEN stmts[1]
    ELSE stmts[1] \o <<seps[1]>> \o glue(Tail(stmts), Tail(seps))

\* files whose lines end with a line feed or with U+2028
ErrorFiles ==
    UNION { {glue(stmts, seps) : stmts \in [1..k -> ErrorStatements],
                                 seps \in [1..(k - 1) -> {EOL, LS}]} :
            k \in 0..MaxStatements }

\* binding maps with an entry that matches no encoding rule
InvalidModules ==
    { Module(defaultImport, "React"),
      Module(globImport, ""),
      Module(globImport, defaultImport),
      [k \in {"React", globImport} |-> IF k = "React" THEN defaultImport ELSE ""] }

\* the items of setImports requests of a collaborator that may be wrong
AnyItems ==
    {TypescriptImport(p, m) : p \in SourcePackages, m \in RequestModules \cup InvalidModules}

----------------------------------------------------------------------------
(* CliService.promptOverwriteFileDiff: the Change[] of the diff package,   *)
(* the test for a change and the answers of the prompt                     *)

\* a Change of the diff package; added and removed are "true", "false" or
\* "undefined" (the property is not set)
Change(value, added, removed) == [value |-> value, added |-> added, removed |-> removed]

\* how a release of the diff package writes 'not added' and 'not removed':
\* the property is left undefined, or it is set to false
ChangeStyles == {"undefined", "false"}

RECURSIVE commonPrefix(_, _)
\* number of leading lines two contents share
commonPrefix(a, b) ==
    IF a = <<>> \/ b = <<>> \/ Head(a) # Head(b) THEN 0
    ELSE 1 + commonPrefix(Tail(a), Tail(b))

reverse(a) == [i \in 1..Len(a) |-> a[Len(a) + 1 - i]]

\* diffLines(existingContent, newContent): the shared head, the lines only
\* the old content has, the lines only the new content has, the shared tail;
\* a part with no line is left out
diffLines(old, new, style) ==
    LET h    == commonPrefix(old, new)
        oldR == SubSeq(old, h + 1, Len(old))
        newR == SubSeq(new, h + 1, Len(new))
        t    == commonPrefix(reverse(oldR), reverse(newR))
        part(value, added, removed) ==
            IF value = <<>> THEN <<>> ELSE <<Change(value, added, removed)>>
    IN  part(SubSeq(old, 1, h), style, style)
        \o part(SubSeq(oldR, 1, Len(oldR) - t), style, "true")
        \o part(SubSeq(newR, 1, Len(newR) - t), "true", style)
        \o part(SubSeq(oldR, Len(oldR) - t + 1, Len(oldR)), style, style)

\* diff.some((part) => part.added !== undefined || part.removed !== undefined)
hasDiff(changes) ==
    \E i \in 1..Len(changes) :
        changes[i].added # "undefined" \/ changes[i].removed # "undefined"

\* the values promptToChoose can resolve with: a choice of the user, or
\* undefined when the user aborts the prompt
Answers == {"diff", "overwrite", "cancel", "undefined"}

\* the loop body with the answer compared with the titles of the choices
afterChoiceByTitle(action) ==
    IF action = "Keep original file" THEN [returned |-> "false", again |-> FALSE]
    ELSE IF action = "Overwrite file" THEN [returned |-> "true", again |-> FALSE]
    ELSE [returned |-> "none", again |-> TRUE]

\* the loop body after promptToChoose: what the call returns for the
\* answer, or that it shows the diff and goes round again
afterChoice(action) ==
    IF action = "cancel" THEN [returned |-> "false", again |-> FALSE]
    ELSE IF action = "overwrite" THEN [returned |-> "true", again |-> FALSE]
    ELSE [returned |-> "none", again |-> TRUE]

\* what pause rejects with when process.stdin has no setRawMode
NotATerminal == [name |-> "TypeError", message |-> "process.stdin.setRawMode is not a function"]

\* contents that are compared
Lines == {"a", "b"}

Contents == SeqsUpTo(Lines, MaxLines)

----------------------------------------------------------------------------
(* The package manager helpers: getPackageManager, getPackageInfo,          *)
(* hasInstalledPackage, installPackages                                     *)

\* enum PackageManager
PackageManager == [yarn |-> 0, npm |-> 1]

\* the directory the helpers are called for
dirPath == "app"

\* a missing package.json
NoFile == [mtime |-> -1]

\* what a call that returned nothing leaves
Nothing == [value |-> "undefined"]

\* the error of a call for a directory that does not exist
NoDirectory == [name |-> "Error", message |-> "Directory does not exist"]

\* the error of getPackageInfo in a directory with no package.json
NoPackageJson == [name |-> "Error", message |-> "package.json does not exist in directory"]

\* the error of installPackages when which(tool) finds nothing
NotInstalled(tool) == [name |-> "Error", message |-> "Unable to install packages", tool |-> tool]

\* getPackageManager(dirPath); the directory exists
getPackageManager(hasYarnLock) ==
    IF hasYarnLock THEN PackageManager.yarn ELSE PackageManager.npm

\* getPackageInfo(dirPath, property): the error it throws or the value it
\* returns, and the packageCache it leaves
getPackageInfo(exists, pkgFile, cache, property) ==
    IF ~exists THEN [error |-> NoDirectory, value |-> {}, cache |-> cache]
    ELSE IF pkgFile = NoFile THEN [error |-> NoPackageJson, value |-> {}, cache |-> cache]
    ELSE IF dirPath \in DOMAIN cache /\ cache[dirPath].mtime >= pkgFile.mtime
    THEN [error |-> NoError, value |-> cache[dirPath].data[property], cache |-> cache]
    ELSE [error |-> NoError, value |-> pkgFile.data[property],
          cache |-> [d \in {dirPath} |-> [mtime |-> pkgFile.mtime, data |-> pkgFile.data]]]

\* the property hasInstalledPackage reads
installedProperty(dev) == IF dev THEN "devDependencies" ELSE "dependencies"

\* 'yarn add ' + packages.join(' ') + (dev ? ' --dev ' : '')
yarnAdd(packages, dev) ==
    <<"yarn", "add">> \o packages \o (IF dev THEN <<"--dev">> ELSE <<>>)

\* 'npm install ' + (dev ? ' -D ' : '') + packages.join(' ') + ' --save'
npmInstall(packages, dev) ==
    <<"npm", "install">> \o (IF dev THEN <<"-D">> ELSE <<>>) \o packages \o <<"--save">>

\* the switch of installPackages: the error it throws or the command it
\* leaves; case PackageManager.yarn has no break and runs on into case
\* PackageManager.npm
installCommand(packageManager, packages, dev, found) ==
    LET yarnCase ==
            IF packageManager # PackageManager.yarn THEN [error |-> NoError, command |-> <<>>]
            ELSE IF "yarn" \notin found THEN [error |-> NotInstalled("yarn"), command |-> <<>>]
            ELSE [error |-> NoError, command |-> yarnAdd(packages, dev)]
    IN  IF yarnCase.error # NoError THEN yarnCase
        ELSE IF "npm" \notin found THEN [error |-> NotInstalled("npm"), command |-> <<>>]
        ELSE [error |-> NoError, command |-> npmInstall(packages, dev)]

\* the packages a call may ask for and a package.json may list
Installable == {"react", "Zod"}

\* the contents of package.json
PackageData ==
    {[dependencies |-> deps, devDependencies |-> {}] : deps \in SUBSET Installable}

\* the package lists of installPackages calls
PackageLists ==
    {l \in SeqsUpTo(Installable, MaxPackages) : \A i, j \in 1..Len(l) : i # j => l[i] # l[j]}

----------------------------------------------------------------------------
(* CliService.execCmd: the tests before spawn, the listeners of the child  *)

\* cwd left out
Undefined == "undefined"

\* the directories fileService.dirExistsSync finds
ExistingDirs == {"app"}

\* fileService.dirExistsSync(cwd)
dirExistsSync(cwd) == cwd \in ExistingDirs

\* args of execCmd: an array of strings, or one string (its characters)
Args(isArray, value) == [isArray |-> isArray, value |-> value]

\* what execCmd throws before it spawns anything, NoError when it goes on
execCmdThrows(args, cwd) ==
    IF Len(args.value) = 0
    THEN [name |-> "Error", message |-> "Command args must not be empty"]
    ELSE IF cwd # Undefined /\ ~dirExistsSync(cwd)
    THEN [name |-> "Error", message |-> "Directory does not exist"]
    ELSE NoError

\* the command and the arguments handed to spawn: args.shift() and the
\* rest of an array, the string itself and no argument otherwise
spawnCommand(args) ==
    IF args.isArray THEN [cmd |-> Head(args.value), args |-> Tail(args.value)]
    ELSE [cmd |-> args.value, args |-> <<>>]

\* output += `\n${data}`
appendData(text, data) == text \o <<EOL, data>>

\* if (code): a number other than 0; null, the code after a signal, is not
isTruthy(code) == code \notin {"0", "null"}

\* the exit listener: reject(error) for a truthy code, resolve(output)
\* otherwise
onExit(code, out, err) ==
    IF isTruthy(code) THEN [promise |-> "rejected", with |-> err]
    ELSE [promise |-> "resolved", with |-> out]

\* the calls of execCmd
ArgsInputs ==
    { Args(TRUE, <<>>), Args(TRUE, <<"npm", "outdated">>),
      Args(FALSE, <<>>), Args(FALSE, <<"n", "p", "m">>) }

Cwds == {Undefined, "app", "missing"}

\* what a child writes
Chunks == {"data"}

Streams == {"stdout", "stderr"}

----------------------------------------------------------------------------
(* The state machine *)

Call(op, importsToAdd, importsToRemove) ==
    [op |-> op, importsToAdd |-> importsToAdd, importsToRemove |-> importsToRemove]

\* no promptOverwriteFileDiff call has been made
IdlePrompt ==
    /\ existingContent = <<>>
    /\ newContent = <<>>
    /\ diff = <<>>
    /\ promptPc = "idle"
    /\ returned = "none"
    /\ choices = <<>>
    /\ prompts = 0
    /\ printed = 0

\* no call of the package manager helpers has been made, in an empty
\* directory
IdlePackages ==
    /\ dirExists = TRUE
    /\ yarnLock = FALSE
    /\ packageJson = NoFile
    /\ packageCache = <<>>
    /\ clock = 0
    /\ onPath = {}
    /\ executed = <<>>
    /\ info = Nothing
    /\ packageCall = [op |-> "none"]

\* no execCmd call has been made
IdleExec ==
    /\ execCall = [op |-> "none"]
    /\ child = "none"
    /\ exitCode = "null"
    /\ produced = [stream \in Streams |-> <<>>]
    /\ delivered = [stream \in Streams |-> 0]
    /\ cmdOutput = <<>>
    /\ cmdError = <<>>
    /\ promise = "none"
    /\ settledWith = <<>>
    /\ settles = 0

Init ==
    /\ imports = <<>>
    /\ declarations = <<>>
    /\ content = <<>>
    /\ output = <<>>
    /\ engine \in Engines
    /\ lastCall = Call("new", <<>>, <<>>)
    /\ nCalls = 0
    /\ arrival = <<>>
    /\ raised = NoError
    /\ IdlePrompt
    /\ stdinIsTTY = TRUE
    /\ IdlePackages
    /\ IdleExec

\* the package names of a registry, in its order
packageNames(imps) == [i \in 1..Len(imps) |-> imps[i].packageName]

\* the file's text is parsed once, when the document is built
ParseContent(text) ==
    /\ lastCall.op = "new"
    /\ LET normal == StdFileParseContent(text)
           error  == parseDiagnostic(normal)
           doc    == parseContent(text)
       IN  IF error = NoDiagnostic
           THEN /\ imports' = doc.imports
                /\ declarations' = doc.declarations
                /\ arrival' = packageNames(doc.imports)
                /\ raised' = NoError
           ELSE /\ imports' = <<>>
                /\ declarations' = <<>>
                /\ arrival' = <<>>
                /\ raised' = parseFailure(normal, error)
    /\ content' = text
    /\ lastCall' = Call("parseContent", <<>>, <<>>)
    /\ UNCHANGED <<output, engine, nCalls, promptVars, packageVars, execVars>>

\* whether the document was never built: its parse threw
parseFailed == lastCall.op = "parseContent" /\ raised # NoError

SetImports(importsToAdd, importsToRemove) ==
    /\ ~parseFailed
    /\ nCalls < MaxCalls
    /\ raised' = NoError
    /\ imports' = setImports(imports, importsToAdd, importsToRemove)
    /\ lastCall' = Call("setImports", importsToAdd, importsToRemove)
    /\ nCalls' = nCalls + 1
    /\ arrival' = arrival \o SubSeq(packageNames(imports'), Len(imports) + 1, Len(imports'))
    /\ UNCHANGED <<declarations, content, output, engine, promptVars, packageVars, execVars>>

GetContent ==
    /\ ~parseFailed
    /\ LET result == getContent(imports, declarations, engine)
       IN  /\ imports' = result.imports
           /\ raised' = result.error
           /\ output' = IF result.error = NoError THEN result.text ELSE output
    /\ lastCall' = Call("getContent", <<>>, <<>>)
    /\ UNCHANGED <<declarations, content, engine, nCalls, arrival, promptVars, packageVars, execVars>>

\* a document edited through setImports
Next ==
    \/ \E text \in ScenarioFiles : ParseContent(text)
    \/ \E r \in Requests : SetImports(r[1], r[2])
    \/ GetContent

Spec == Init /\ [][Next]_vars

\* a parsed file serialized with no edit in between
NextParse ==
    \/ \E text \in SourceFiles : ParseContent(text)
    \/ GetContent

ParseSpec == Init /\ [][NextParse]_vars

\* files that may not parse
NextError ==
    \/ \E text \in ErrorFiles : ParseContent(text)
    \/ GetContent

ErrorSpec == Init /\ [][NextError]_vars

\* a document edited by a collaborator whose requests may be malformed
NextAny ==
    \/ \E importItem \in AnyItems : SetImports(<<importItem>>, <<>>)
    \/ \E importItem \in AnyItems : SetImports(<<>>, <<importItem>>)
    \/ GetContent

AnySpec == Init /\ [][NextAny]_vars

----------------------------------------------------------------------------
(* The overwrite prompt *)

\* no document is open
NoDocument ==
    /\ imports = <<>>
    /\ declarations = <<>>
    /\ content = <<>>
    /\ output = <<>>
    /\ engine = "timsort"
    /\ lastCall = Call("new", <<>>, <<>>)
    /\ nCalls = 0
    /\ arrival = <<>>
    /\ raised = NoError

PromptInit ==
    /\ NoDocument
    /\ IdlePrompt
    /\ stdinIsTTY \in BOOLEAN
    /\ IdlePackages
    /\ IdleExec

\* promptOverwriteFileDiff(file, diff) up to its first await: false with no
\* prompt when hasDiff is false, the first prompt otherwise
PromptOverwriteFileDiff(old, new, style) ==
    /\ promptPc = "idle"
    /\ existingContent' = old
    /\ newContent' = new
    /\ diff' = diffLines(old, new, style)
    /\ IF ~hasDiff(diff')
       THEN promptPc' = "done" /\ returned' = "false" /\ prompts' = 0
       ELSE promptPc' = "prompt" /\ returned' = "none" /\ prompts' = 1
    /\ choices' = <<>>
    /\ printed' = 0
    /\ raised' = NoError
    /\ UNCHANGED <<stdinIsTTY, docVars, packageVars, execVars>>

\* promptToChoose resolves with action: the call returns, or prints the diff
\* and calls pause, which waits for stdin data on a terminal and rejects
\* with the error of setRawMode otherwise
Choose(action) ==
    /\ promptPc = "prompt"
    /\ Len(choices) < MaxChoices
    /\ choices' = Append(choices, action)
    /\ LET step == afterChoice(action)
       IN  IF ~step.again
           THEN /\ promptPc' = "done"
                /\ returned' = step.returned
                /\ UNCHANGED <<printed, raised>>
           ELSE /\ printed' = printed + 1
                /\ returned' = "none"
                /\ IF stdinIsTTY
                   THEN promptPc' = "pause" /\ UNCHANGED raised
                   ELSE promptPc' = "done" /\ raised' = NotATerminal
    /\ UNCHANGED <<existingContent, newContent, diff, prompts, stdinIsTTY, docVars, packageVars, execVars>>

\* a key is pressed: pause resolves and the loop prompts again
KeyPress ==
    /\ promptPc = "pause"
    /\ promptPc' = "prompt"
    /\ prompts' = prompts + 1
    /\ UNCHANGED <<existingContent, newContent, diff, returned, choices, printed, stdinIsTTY,
                   raised, docVars, packageVars, execVars>>

NextPrompt ==
    \/ \E old \in Contents, new \in Contents, style \in ChangeStyles :
          PromptOverwriteFileDiff(old, new, style)
    \/ \E action \in Answers : Choose(action)
    \/ KeyPress

PromptSpec == PromptInit /\ [][NextPrompt]_vars

----------------------------------------------------------------------------
(* The package manager helpers at work in one directory *)

PackageInit ==
    /\ NoDocument
    /\ IdlePrompt
    /\ stdinIsTTY = TRUE
    /\ dirExists \in BOOLEAN
    /\ yarnLock \in (IF dirExists THEN BOOLEAN ELSE {FALSE})
    /\ packageJson = NoFile
    /\ packageCache = <<>>
    /\ clock = 0
    /\ onPath \in {{"yarn", "npm"}, {"yarn"}, {"npm"}}
    /\ executed = <<>>
    /\ info = Nothing
    /\ packageCall = [op |-> "none"]
    /\ IdleExec

\* the file system clock moves on by one tick of its mtime
Tick ==
    /\ clock < MaxClock
    /\ clock' = clock + 1
    /\ UNCHANGED <<dirExists, yarnLock, packageJson, packageCache, onPath, executed, info,
                   packageCall, raised, docVars, promptVars, execVars>>

\* some process (the package manager, an editor, this program) writes
\* package.json
WritePackageJson(data) ==
    /\ dirExists
    /\ packageJson' = [mtime |-> clock, data |-> data]
    /\ packageCall' = [op |-> "write"]
    /\ UNCHANGED <<dirExists, yarnLock, packageCache, clock, onPath, executed, info,
                   raised, docVars, promptVars, execVars>>

GetPackageInfo(property) ==
    /\ LET result == getPackageInfo(dirExists, packageJson, packageCache, property)
       IN  /\ raised' = result.error
           /\ info' = IF result.error = NoError THEN [value |-> result.value] ELSE Nothing
           /\ packageCache' = result.cache
    /\ packageCall' = [op |-> "getPackageInfo", property |-> property]
    /\ UNCHANGED <<dirExists, yarnLock, packageJson, clock, onPath, executed,
                   docVars, promptVars, execVars>>

\* installPackages(dirPath, packages, verbose, dev): the filter (one
\* hasInstalledPackage call per package, the first of which may fill the
\* cache), the switch and exec
InstallPackages(packages, dev) ==
    /\ LET read     == getPackageInfo(dirExists, packageJson, packageCache,
                                      installedProperty(dev))
           missing  == SelectSeq(packages, LAMBDA packageName : packageName \notin read.value)
           switch   == installCommand(getPackageManager(yarnLock), missing, dev, onPath)
       IN  IF packages = <<>>
           THEN /\ raised' = NoError
                /\ info' = [value |-> <<>>]
                /\ executed' = <<>>
                /\ UNCHANGED packageCache
           ELSE IF read.error # NoError
           THEN /\ raised' = read.error
                /\ info' = Nothing
                /\ executed' = <<>>
                /\ UNCHANGED packageCache
           ELSE /\ packageCache' = read.cache
                /\ IF missing = <<>>
                   THEN raised' = NoError /\ info' = [value |-> <<>>] /\ executed' = <<>>
                   ELSE IF switch.error # NoError
                   THEN raised' = switch.error /\ info' = Nothing /\ executed' = <<>>
                   ELSE /\ raised' = NoError
                        /\ info' = [value |-> missing]
                        /\ executed' = <<switch.command>>
    /\ packageCall' = [op |-> "installPackages", packages |-> packages, dev |-> dev]
    /\ UNCHANGED <<dirExists, yarnLock, packageJson, clock, onPath, docVars, promptVars, execVars>>

NextPackage ==
    \/ Tick
    \/ \E data \in PackageData : WritePackageJson(data)
    \/ \E property \in {"dependencies", "devDependencies"} : GetPackageInfo(property)
    \/ \E packages \in PackageLists, dev \in BOOLEAN : InstallPackages(packages, dev)

PackageSpec == PackageInit /\ [][NextPackage]_vars

----------------------------------------------------------------------------
(* execCmd and its child process *)

ExecInit ==
    /\ NoDocument
    /\ IdlePrompt
    /\ stdinIsTTY = TRUE
    /\ IdlePackages
    /\ IdleExec

\* execCmd(args, cwd, silent) up to the return of the promise: it throws,
\* or spawns the child and registers the listeners
ExecCmd(args, cwd, silent) ==
    /\ execCall.op = "none"
    /\ raised' = execCmdThrows(args, cwd)
    /\ execCall' = [op |-> "execCmd", args |-> args, cwd |-> cwd, silent |-> silent,
                    spawned |-> IF raised' # NoError THEN <<>> ELSE <<spawnCommand(args)>>]
    /\ IF raised' # NoError
       THEN UNCHANGED <<child, promise>>
       ELSE child' = "running" /\ promise' = "pending"
    /\ UNCHANGED <<exitCode, produced, delivered, cmdOutput, cmdError, settledWith, settles,
                   docVars, promptVars, packageVars>>

\* the running child writes a chunk to one of its streams
ChildWrites(stream, data) ==
    /\ child = "running"
    /\ Len(produced.stdout) + Len(produced.stderr) < MaxChunks
    /\ produced' = [produced EXCEPT ![stream] = Append(@, data)]
    /\ UNCHANGED <<execCall, child, exitCode, delivered, cmdOutput, cmdError, promise,
                   settledWith, settles, raised, docVars, promptVars, packageVars>>

\* a data event of child.stdout or child.stderr, which exist when stdio is
\* "pipe" (silent); the streams may still hold data when the exit event
\* has been emitted
DataEvent(stream) ==
    /\ child # "none"
    /\ execCall.silent
    /\ delivered[stream] < Len(produced[stream])
    /\ delivered' = [delivered EXCEPT ![stream] = @ + 1]
    /\ LET data == produced[stream][delivered[stream] + 1]
       IN  IF stream = "stdout"
           THEN cmdOutput' = appendData(cmdOutput, data) /\ UNCHANGED cmdError
           ELSE cmdError' = appendData(cmdError, data) /\ UNCHANGED cmdOutput
    /\ UNCHANGED <<execCall, child, exitCode, produced, promise, settledWith, settles,
                   raised, docVars, promptVars, packageVars>>

\* the child ends, with an exit code or killed by a signal (code null), and
\* its exit event runs the listener
ChildExits(code) ==
    /\ child = "running"
    /\ child' = "exited"
    /\ exitCode' = code
    /\ LET settle == onExit(code, cmdOutput, cmdError)
       IN  /\ promise' = settle.promise
           /\ settledWith' = settle.with
    /\ settles' = settles + 1
    /\ UNCHANGED <<execCall, produced, delivered, cmdOutput, cmdError,
                   raised, docVars, promptVars, packageVars>>

NextExec ==
    \/ \E args \in ArgsInputs, cwd \in Cwds, silent \in BOOLEAN : ExecCmd(args, cwd, silent)
    \/ \E stream \in Streams, data \in Chunks : ChildWrites(stream, data)
    \/ \E stream \in Streams : DataEvent(stream)
    \/ \E code \in {"0", "1", "null"} : ChildExits(code)

ExecSpec == ExecInit /\ [][NextExec]_vars

----------------------------------------------------------------------------
(* Properties *)

\* the statements of package p in a registry
statementsOf(imps, p) == {i \in 1..Len(imps) : imps[i].packageName = p}

\* C1: after any sequence of parse, add and remove calls, also an add whose
\* batch names one package twice, the registry holds at most one statement
\* per package name.
C1_OneStatementPerPackage ==
    \A p \in Packages : Cardinality(statementsOf(imports, p)) <= 1

\* C1 witness: an add call whose batch names one package twice has run and
\* the registry holds one statement for it.
C1_Witness ==
    /\ lastCall.op = "setImports"
    /\ Len(lastCall.importsToAdd) = 2
    /\ lastCall.importsToAdd[1].packageName = lastCall.importsToAdd[2].packageName
    /\ lastCall.importsToAdd[1].modules # lastCall.importsToAdd[2].modules
    /\ Cardinality(statementsOf(imports, lastCall.importsToAdd[1].packageName)) = 1

\* whether map new is map old overridden key by key by map request
isOverride(old, request, new) ==
    /\ DOMAIN new = (DOMAIN old) \cup (DOMAIN request)
    /\ \A k \in DOMAIN request : new[k] = request[k]
    /\ \A k \in (DOMAIN old) \ (DOMAIN request) : new[k] = old[k]

\* whether registry after is registry before with the binding map of the
\* statement of package p replaced by one that satisfies changed, every
\* other statement and the order kept
onlyChanges(before, after, p, changed(_, _)) ==
    /\ Len(after) = Len(before)
    /\ \A i \in 1..Len(before) :
          IF before[i].packageName = p
          THEN /\ after[i].packageName = p
               /\ changed(before[i].modules, after[i].modules)
          ELSE after[i] = before[i]

\* the bindings the parser records for the specifiers of package p, in
\* source order
RECURSIVE recorded(_, _)
recorded(body, p) ==
    IF body = <<>> THEN <<>>
    ELSE LET item == Head(body)
             mine == item.type = "ImportDeclaration" /\ item.source = p
             own  == IF ~mine THEN <<>>
                     ELSE IF item.specifiers = <<>>
                     THEN <<Module(defaultImport, defaultImport)>>
                     ELSE [i \in 1..Len(item.specifiers) |->
                              specifierModules(item.specifiers[i])]
         IN  own \o recorded(Tail(body), p)

\* whether map m holds, for every key of the recorded bindings bs, the
\* value of the last binding with that key, and no other key
isLastWrite(bs, m) ==
    /\ DOMAIN m = UNION {DOMAIN bs[i] : i \in 1..Len(bs)}
    /\ \A k \in DOMAIN m :
          \E i \in 1..Len(bs) :
             /\ k \in DOMAIN bs[i]
             /\ m[k] = bs[i][k]
             /\ \A j \in (i + 1)..Len(bs) : k \notin DOMAIN bs[j]

\* C2: add-bindings(p, B) overrides the binding map of p's statement key by
\* key with B and keeps every other key, or creates the statement with
\* exactly B when p has none; a later import declaration of a package the
\* parser has seen overrides the earlier ones in the same way.
C2_MergePrecedence ==
    [][ /\ ( /\ lastCall'.op = "setImports"
             /\ Len(lastCall'.importsToAdd) = 1
             /\ lastCall'.importsToRemove = <<>> )
          => LET importItem == lastCall'.importsToAdd[1]
                 p == importItem.packageName
                 merge(old, new) == isOverride(old, importItem.modules, new)
             IN  IF statementsOf(imports, p) # {}
                 THEN onlyChanges(imports, imports', p, merge)
                 ELSE imports' = Append(imports, TypescriptImport(p, importItem.modules))
        /\ lastCall'.op = "parseContent"
          => \A i \in 1..Len(imports') :
                isLastWrite(recorded(parseTypescriptContent(content'), imports'[i].packageName),
                            imports'[i].modules)
      ]_vars

\* C2 witness: on the parsed file that imports React (default) and useState
\* from "react", an add call for "react" has replaced the value of key React.
C2_Witness ==
    /\ content = ReactFile
    /\ nCalls = 1
    /\ lastCall.op = "setImports"
    /\ lastCall.importsToRemove = <<>>
    /\ lastCall.importsToAdd = <<TypescriptImport("react", [k \in {"React", "useState"} |-> ""])>>
    /\ \E i \in 1..Len(imports) :
          /\ imports[i].packageName = "react"
          /\ imports[i].modules = [k \in {"React", "useState"} |-> ""]

\* C3: remove-bindings(p, B) deletes every key of B from the binding map of
\* p's statement whatever value B gives it, keeps every other key with its
\* value, and does nothing for a key of B the map does not hold.
C3_RemovalIsKeyed ==
    [][ ( /\ lastCall'.op = "setImports"
          /\ lastCall'.importsToAdd = <<>>
          /\ Len(lastCall'.importsToRemove) = 1 )
        => LET importItem == lastCall'.importsToRemove[1]
               cut(old, new) ==
                   /\ DOMAIN new = (DOMAIN old) \ (DOMAIN importItem.modules)
                   /\ \A k \in DOMAIN new : new[k] = old[k]
           IN  onlyChanges(imports, imports', importItem.packageName, cut)
      ]_vars

\* C3 witness: on the parsed file whose "react" statement is
\* {React: "useState"}, a remove call for "react" with {React: "", useState: ""}
\* (another value for React, a key the map does not hold) has emptied the map.
C3_Witness ==
    /\ content = ClashFile
    /\ nCalls = 1
    /\ lastCall.op = "setImports"
    /\ lastCall.importsToAdd = <<>>
    /\ lastCall.importsToRemove = <<TypescriptImport("react", [k \in {"React", "useState"} |-> ""])>>
    /\ imports = <<TypescriptImport("react", NoModules)>>

\* the package names of the import declarations of a text, in text order
RECURSIVE sourcesOf(_)
sourcesOf(body) ==
    IF body = <<>> THEN <<>>
    ELSE (IF Head(body).type = "ImportDeclaration" THEN <<Head(body).source>> ELSE <<>>)
         \o sourcesOf(Tail(body))

importSources(text) == sourcesOf(parseTypescriptContent(text))

\* the position of package p in a sequence of package names
positionOf(names, p) == CHOOSE i \in 1..Len(names) : names[i] = p

\* C4: in the serialized import block no relative import precedes a
\* non-relative one, and the non-relative imports are in ascending
\* (locale-aware) order of package name, whatever the arrival order.
C4_GroupsSorted ==
    lastCall.op = "getContent" =>
        LET srcs == importSources(output)
        IN  \A i, j \in 1..Len(srcs) :
               (i < j /\ ~isRelative(srcs[j])) =>
                   /\ ~isRelative(srcs[i])
                   /\ localeCompare(srcs[i], srcs[j]) < 0

\* C4 witness: statements that arrived as "./utils", "Zod", "react" are
\* serialized as "react", "Zod", "./utils".
C4_Witness ==
    /\ lastCall.op = "getContent"
    /\ arrival = <<"./utils", "Zod", "react">>
    /\ importSources(output) = <<"react", "Zod", "./utils">>

\* C5: in the serialized import block two relative imports keep the order
\* in which their statements arrived in the registry.
C5_RelativeOrderStable ==
    lastCall.op = "getContent" =>
        LET srcs == importSources(output)
        IN  \A i, j \in 1..Len(srcs) :
               (i < j /\ isRelative(srcs[i]) /\ isRelative(srcs[j])) =>
                   positionOf(arrival, srcs[i]) < positionOf(arrival, srcs[j])

\* the lines of a text: its parts between line terminators
RECURSIVE splitLines(_)
splitLines(text) ==
    LET e == indexOf(text, EOL, 1)
    IN  IF e > Len(text) THEN <<text>>
        ELSE <<SubSeq(text, 1, e - 1)>> \o splitLines(SubSeq(text, e + 1, Len(text)))

hasModules(importItem) == DOMAIN importItem.modules # {}

\* the statements of the registry that hold a binding, in registry order
shownImports == SelectSeq(imports, hasModules)

\* C9: the serialized text is the rendered non-empty import lines in sorted
\* order, one empty line, then the body spans in recorded order, joined by
\* the line terminator, also with no import statement or no body span.
C9_FinalAssembly ==
    lastCall.op = "getContent" =>
        LET ls   == splitLines(output)
            k    == Len(shownImports)
            rest == SubSeq(ls, k + 2, Len(ls))
        IN  /\ Len(ls) >= k + 1
            /\ \A i \in 1..k : ls[i] # <<>> /\ ls[i] = toString(shownImports[i])
            /\ \A i, j \in 1..k :
                  (i < j /\ ~isRelative(shownImports[j].packageName)) =>
                      /\ ~isRelative(shownImports[i].packageName)
                      /\ localeCompare(shownImports[i].packageName,
                                       shownImports[j].packageName) < 0
            /\ ls[k + 1] = <<>>
            /\ IF declarations = <<>> THEN rest = <<>>
               ELSE rest # <<>> /\ join(rest, EOL) = join(declarations, EOL)

\* C9 witness: a text with two import lines, the empty line and a body span.
C9_Witness ==
    /\ lastCall.op = "getContent"
    /\ Len(shownImports) = 2
    /\ declarations = << <<"x", ";">> >>
    /\ Len(splitLines(output)) = 4

\* C10: a statement whose binding map is empty shows in no import
\* declaration of the serialized text and leaves no empty line among the
\* import lines; the text is the one of the registry without it.
C10_EmptySuppressed ==
    lastCall.op = "getContent" =>
        LET ls == splitLines(output)
            k  == Len(shownImports)
        IN  /\ importSources(output) = packageNames(shownImports)
            /\ \A i \in 1..Len(ls) : ls[i] = <<>> => i > k
            /\ output = join([i \in 1..k |-> toString(shownImports[i])]
                             \o << <<>> >> \o declarations, EOL)

\* C10 witness: a registry with an emptied statement and another one has
\* been serialized.
C10_Witness ==
    /\ lastCall.op = "getContent"
    /\ nCalls > 0
    /\ \E i \in 1..Len(imports) : ~hasModules(imports[i])
    /\ \E i \in 1..Len(imports) : hasModules(imports[i])

\* the registry as a set of (package name, binding map) pairs
statementSet(imps) == {imps[i] : i \in 1..Len(imps)}

tableEntry(specifier) ==
    CASE specifier.type = "ImportDefaultSpecifier"   -> <<specifier.local, defaultImport>>
      [] specifier.type = "ImportNamespaceSpecifier" -> <<globImport, specifier.local>>
      [] specifier.type = "ImportSpecifier" /\ specifier.local = specifier.imported
                                                     -> <<specifier.imported, "">>
      [] OTHER                                       -> <<specifier.imported, specifier.local>>

\* the table's pairs for the import declarations of package p, in source order
RECURSIVE tableEntries(_, _)
tableEntries(body, p) ==
    IF body = <<>> THEN <<>>
    ELSE LET item == Head(body)
             mine == item.type = "ImportDeclaration" /\ item.source = p
             own  == IF ~mine THEN <<>>
                     ELSE IF item.specifiers = <<>> THEN << <<defaultImport, defaultImport>> >>
                     ELSE [i \in 1..Len(item.specifiers) |-> tableEntry(item.specifiers[i])]
         IN  own \o tableEntries(Tail(body), p)

\* C7: after a parse every package the file imports has exactly one
\* statement, whose binding map holds the encoding table's pair of every
\* specifier of every declaration of the package (the last pair of a key
\* when one key is recorded twice), and nothing else.
C7_ParseEncoding ==
    lastCall.op = "parseContent" =>
        LET body == parseTypescriptContent(content)
        IN  /\ \A p \in Packages :
                  Cardinality(statementsOf(imports, p)) =
                      IF tableEntries(body, p) # <<>> THEN 1 ELSE 0
            /\ \A i \in 1..Len(imports) :
                  LET es == tableEntries(body, imports[i].packageName)
                      m  == imports[i].modules
                  IN  /\ DOMAIN m = {es[n][1] : n \in 1..Len(es)}
                      /\ \A k \in DOMAIN m :
                            \E n \in 1..Len(es) :
                               /\ es[n] = <<k, m[k]>>
                               /\ \A l \in (n + 1)..Len(es) : es[l][1] # k

\* C7 witness: the file that imports React (default) and useState from
\* "react" is parsed into one statement {React: DEFAULT, useState: ""}.
C7_Witness ==
    /\ lastCall.op = "parseContent"
    /\ content = ReactFile
    /\ imports = <<TypescriptImport("react",
                      [k \in {"React", "useState"} |->
                          IF k = "React" THEN defaultImport ELSE ""])>>

isOtherStatement(bodyItem) == bodyItem.type # "ImportDeclaration"

\* C8: after a parse the body spans are the texts of the statements that
\* are no import declaration, each the exact part of the content its range
\* covers, in source order; no import declaration is among them.
C8_BodyHoisting ==
    lastCall.op = "parseContent" =>
        LET text   == StdFileParseContent(content)
            body   == parseTypescriptContent(text)
            others == SelectSeq(body, isOtherStatement)
        IN  /\ Len(declarations) = Len(others)
            /\ \A i \in 1..Len(others) :
                  /\ declarations[i] =
                        SubSeq(text, others[i].range[1] + 1, others[i].range[2])
                  /\ declarations[i] \in BodyTexts
                  /\ declarations[i][1] # "import"
            /\ \A i, j \in 1..Len(others) : i < j => others[i].range[2] <= others[j].range[1]

\* C8 witness: a file with an import declaration between two other
\* statements has been parsed.
C8_Witness ==
    /\ lastCall.op = "parseContent"
    /\ content = join(<< <<"x", ";">>, importText("default", "react"),
                         <<"y", EOL, "z", ";">> >>, EOL)
    /\ declarations = << <<"x", ";">>, <<"y", EOL, "z", ";">> >>
    /\ Len(imports) = 1

\* C13: remove-bindings(p, B) for a package p that has no statement changes
\* nothing and throws nothing: the registry (statements, binding maps,
\* order) and the body spans stay as they are and no statement for p is
\* created.
C13_RemoveAbsentIsNoOp ==
    [][ ( /\ lastCall'.op = "setImports"
          /\ lastCall'.importsToAdd = <<>>
          /\ \A i \in 1..Len(lastCall'.importsToRemove) :
                statementsOf(imports, lastCall'.importsToRemove[i].packageName) = {} )
        => /\ imports' = imports
           /\ declarations' = declarations
           /\ arrival' = arrival
           /\ raised' = NoError
      ]_vars

\* C13 witness: a remove call for "Zod" has run on the parsed file that
\* imports only from "react".
C13_Witness ==
    /\ content = ReactFile
    /\ nCalls = 1
    /\ lastCall.op = "setImports"
    /\ lastCall.importsToAdd = <<>>
    /\ lastCall.importsToRemove = <<TypescriptImport("Zod", Module("React", defaultImport))>>
    /\ packageNames(imports) = <<"react">>

\* the part of a serialized text after its first empty line
bodyPart(text) ==
    LET ls == splitLines(text)
        e  == CHOOSE i \in 1..Len(ls) : ls[i] = <<>> /\ \A j \in 1..(i - 1) : ls[j] # <<>>
    IN  join(SubSeq(ls, e + 1, Len(ls)), EOL)

\* C15: the body spans are the ones parse recorded, in the same order,
\* after any sequence of setImports and getContent calls, and the body part
\* of every serialized text is the body part right after parse.
C15_BodyFramed ==
    LET parsed == parseContent(content).declarations
    IN  /\ declarations = parsed
        /\ lastCall.op = "getContent" => bodyPart(output) = join(parsed, EOL)

\* C15 witness: the parsed file with two body spans around its import has
\* been edited by two setImports calls that left two statements, and
\* serialized.
C15_Witness ==
    /\ content = BodyFile
    /\ lastCall.op = "getContent"
    /\ nCalls = 2
    /\ Len(imports) = 2
    /\ declarations = << <<"x", ";">>, <<"y", EOL, "z", ";">> >>
    /\ bodyPart(output) = <<"x", ";", EOL, "y", EOL, "z", ";">>

\* C16: a getContent call that follows a getContent call, with no setImports
\* in between, returns the same text and leaves the registry in the same
\* order.
C16_SerializeRepeatable ==
    [][ (lastCall.op = "getContent" /\ lastCall'.op = "getContent")
        => (output' = output /\ imports' = imports) ]_vars

\* whether some statement of package p in a registry holds key k
holdsKey(imps, p, k) ==
    \E i \in statementsOf(imps, p) : k \in DOMAIN imps[i].modules

\* C18: after setImports(adds, removes) a key of a package that is in both
\* adds and removes is in no binding map of the package, and the registry is
\* the one that add-bindings(adds) followed by remove-bindings(removes) gives.
C18_AddsBeforeRemoves ==
    [][ lastCall'.op = "setImports"
        => LET adds    == lastCall'.importsToAdd
               removes == lastCall'.importsToRemove
           IN  /\ \A i \in 1..Len(adds), j \in 1..Len(removes) :
                     adds[i].packageName = removes[j].packageName
                     => \A k \in (DOMAIN adds[i].modules) \cap (DOMAIN removes[j].modules) :
                           ~holdsKey(imports', adds[i].packageName, k)
               /\ imports' = removeImports(addImports(imports, adds), removes)
               /\ \A j \in 1..Len(removes) :
                     statementsOf(imports', removes[j].packageName) # {}
                     \/ \A i \in 1..Len(adds) : adds[i].packageName # removes[j].packageName
      ]_vars

\* C18 witness: one call has added "Zod" with {React: DEFAULT} to a registry
\* without "Zod" and removed keys React and useState from it: the statement
\* exists and is empty.
C18_Witness ==
    /\ lastCall.op = "setImports"
    /\ lastCall.importsToAdd = <<TypescriptImport("Zod", Module("React", defaultImport))>>
    /\ lastCall.importsToRemove = <<TypescriptImport("Zod", [k \in {"React", "useState"} |-> ""])>>
    /\ nCalls = 1
    /\ imports = <<TypescriptImport("Zod", NoModules)>>

\* C11: when the content does not parse, parse builds no document and
\* throws an error with the file path, the serialized diagnostic and the
\* trimmed line at index lineNumber - 1 of the content split on line feeds.
C11_ParseError ==
    (lastCall.op = "parseContent" /\ parseDiagnostic(content).lineNumber > 0) =>
        LET error == parseDiagnostic(content)
            lines == split(content, EOL)
        IN  /\ imports = <<>>
            /\ declarations = <<>>
            /\ raised.name = "Error"
            /\ raised.file = file
            /\ raised.diagnostic = stringify(error)
            /\ error.lineNumber <= Len(lines)
            /\ raised.line = trim(lines[error.lineNumber])

\* whether a statement of the registry holds an entry that matches no
\* encoding rule
holdsMalformed(imps) ==
    \E i \in 1..Len(imps) : \E k \in DOMAIN imps[i].modules : ~isEncoded(imps[i].modules, k)

\* C14: getContent on a registry that holds an entry matching none of the
\* five encoding rules throws an InvariantViolation and returns no text; on
\* any other registry it throws nothing.
C14_InvariantViolation ==
    [][ lastCall'.op = "getContent"
        => IF holdsMalformed(imports)
           THEN raised'.name = "InvariantViolation" /\ output' = output
           ELSE raised' = NoError ]_vars

\* C14 witness: getContent has thrown for a registry whose "react" statement
\* holds key DEFAULT with the value "React".
C14_Witness ==
    /\ lastCall.op = "getContent"
    /\ raised.name = "InvariantViolation"
    /\ \E i \in 1..Len(imports) :
          /\ imports[i].packageName = "react"
          /\ defaultImport \in DOMAIN imports[i].modules
          /\ imports[i].modules[defaultImport] = "React"

\* C12: whenever the existing and the new content are identical,
\* promptOverwriteFileDiff returns false and issues no prompt, whatever the
\* diff parts hold for 'not added' and 'not removed'.
C12_NoPromptWhenIdentical ==
    (promptPc # "idle" /\ existingContent = newContent) =>
        /\ promptPc = "done"
        /\ returned = "false"
        /\ prompts = 0
        /\ choices = <<>>

\* the answers that end the loop
isDecision(action) == action \in {"overwrite", "cancel"}

C19_InstallCommand ==
    (packageCall.op = "installPackages" /\ raised = NoError) =>
        IF info.value = <<>> THEN executed = <<>>
        ELSE executed = << IF yarnLock THEN yarnAdd(info.value, packageCall.dev)
                           ELSE npmInstall(info.value, packageCall.dev) >>

\* C20: a getPackageInfo call that returns gives the value the property has
\* in the package.json as it is on disk at the call.
C20_CacheFresh ==
    (packageCall.op = "getPackageInfo" /\ raised = NoError) =>
        info.value = packageJson.data[packageCall.property]

RECURSIVE textOf(_)
\* the text a listener has gathered once every chunk has reached it
textOf(chunks) ==
    IF chunks = <<>> THEN <<>> ELSE <<EOL, Head(chunks)>> \o textOf(Tail(chunks))

\* C21: execCmd throws and spawns nothing when args is empty or cwd is given
\* and does not exist; otherwise the promise settles once, when the child
\* exits: resolved with all the child wrote to stdout when the exit code is
\* 0, rejected with the stderr data gathered so far for any other code and
\* for a child killed by a signal.
C21_ExecOutcome ==
    execCall.op = "execCmd" =>
        IF Len(execCall.args.value) = 0
           \/ (execCall.cwd # Undefined /\ execCall.cwd \notin ExistingDirs)
        THEN /\ raised.name = "Error"
             /\ execCall.spawned = <<>>
             /\ child = "none"
             /\ promise = "none"
        ELSE /\ raised = NoError
             /\ child # "none"
             /\ (promise = "pending") <=> (child = "running")
             /\ settles = IF child = "exited" THEN 1 ELSE 0
             /\ child = "exited" =>
                   IF exitCode = "0"
                   THEN /\ promise = "resolved"
                        /\ execCall.silent => settledWith = textOf(produced.stdout)
                   ELSE /\ promise = "rejected"
                        /\ \E n \in 0..Len(produced.stderr) :
                              settledWith = textOf(SubSeq(produced.stderr, 1, n))

====
